---- MODULE Spec2Model ----
(***************************************************************************)
(* prometheus-nvml-exporter (src/main.rs): the collection loop of main,    *)
(* MetricDevice::new / update / performance_state, the prometheus registry *)
(* the loop writes to and the request gate of prometheus_exporter it       *)
(* synchronises with.                                                      *)
(***************************************************************************)
EXTENDS Integers, Sequences, FiniteSets, TLC

(***************************************************************************)
(* Bounds of the model and constants of the program.                       *)
(***************************************************************************)
\* Physical GPUs that may be attached to the host.
MaxDevices == 2
\* Fan sensors a GPU may answer for when it is probed.
MaxFans == 1
\* Width of the registry's u64 counters, scaled: inc_by adds modulo 2^64.
CounterBits == 2
\* Largest hardware counter value the driver reports (below 2^CounterBits).
MaxHw == 3
\* Scrape requests that may be outstanding (received and not yet answered).
MaxInflight == 2
\* Granularity of the monotonic clock, in seconds.
TickStep == 900
\* Longest run of equal device counts that is told apart from longer ones.
MaxRun == 9

\* main.rs:167 and :178, Duration::from_secs(30)
BaseInterval == 30
\* main.rs:179, Duration::from_secs(3600)
MaxInterval == 3600
\* main.rs:75, i > 10_000
FanProbeCap == 10000

RECURSIVE Pow2(_)
Pow2(n) == IF n = 0 THEN 1 ELSE 2 * Pow2(n - 1)

Min(a, b) == IF a <= b THEN a ELSE b

\* u64 arithmetic of a release build wraps modulo 2^64 (scaled to CounterBits).
CounterMod == Pow2(CounterBits)

(***************************************************************************)
(* The device-query interface (nvml_wrapper), as far as main.rs uses it.   *)
(***************************************************************************)
Physical == 1 .. MaxDevices

\* device.uuid(), device.name(), device.pci_info().bus_id of physical GPU p.
\* Two boards of the same model share the name.
HwUuid(p) == "GPU-" \o ToString(p)
HwName(p) == "NVIDIA A100"
HwBusId(p) == "00000000:0" \o ToString(p) \o ":00.0"

\* PerformanceState, nvml_wrapper::enum_wrappers::device
NumberedStates ==
    << "Zero", "One", "Two", "Three", "Four", "Five", "Six", "Seven", "Eight",
       "Nine", "Ten", "Eleven", "Twelve", "Thirteen", "Fourteen", "Fifteen" >>
PerformanceStates == { NumberedStates[i] : i \in 1 .. Len(NumberedStates) } \cup { "Unknown" }

(***************************************************************************)
(* MetricDevice                                                            *)
(***************************************************************************)
\* device.fan_speed(i) answers at probe time for the sensors the board has.
FanSpeedOk(raw, i) == i < raw.fans

\* MetricDevice::new, the loop that counts the fans, over the indices lo..hi:
\* at each index the loop breaks with i when i > 10_000 or fan_speed(i) is an
\* error, and goes on to i + 1 otherwise.  The result is the index it broke at,
\* or hi + 1 when it went through the range.  (The range is run half by half,
\* which keeps the evaluation shallow; the indices are visited in order.)
RECURSIVE FanProbeRange(_, _, _)
FanProbeRange(raw, lo, hi) ==
    IF lo > hi THEN lo
    ELSE IF lo = hi
         THEN (IF lo > FanProbeCap \/ ~FanSpeedOk(raw, lo) THEN lo ELSE lo + 1)
    ELSE LET mid == (lo + hi) \div 2
             first == FanProbeRange(raw, lo, mid)
         IN  IF first <= mid THEN first ELSE FanProbeRange(raw, mid + 1, hi)

\* The loop started at i: it has broken by index 10_001 at the latest.
FanProbe(raw, i) == FanProbeRange(raw, i, FanProbeCap + 1)

\* MetricDevice::new on success: the fan count, then uuid, name and bus id.
MetricDeviceNew(raw) ==
    [ device    |-> raw.id,
      labels    |-> << HwUuid(raw.id), HwName(raw.id), HwBusId(raw.id) >>,
      fan_count |-> FanProbe(raw, 0) ]

\* MetricDevice::labels
Labels(dev) == dev.labels

\* The label values of fan i: the three labels and format!("{}", i).
MutFanLabelsOffByOne(dev, i) == Labels(dev) \o << ToString(i + 1) >>
FanLabels(dev, i) == Labels(dev) \o << ToString(i) >>

\* MetricDevice::performance_state, the match on the enum.
MutPerformanceStateTypo(ps) ==
    CASE ps = "Unknown" -> -1
      [] ps = "Ten"     -> 1
      [] OTHER          -> (CHOOSE i \in 1 .. 16 : NumberedStates[i] = ps) - 1
PerformanceState(ps) ==
    CASE ps = "Zero"     -> 0
      [] ps = "One"      -> 1
      [] ps = "Two"      -> 2
      [] ps = "Three"    -> 3
      [] ps = "Four"     -> 4
      [] ps = "Five"     -> 5
      [] ps = "Six"      -> 6
      [] ps = "Seven"    -> 7
      [] ps = "Eight"    -> 8
      [] ps = "Nine"     -> 9
      [] ps = "Ten"      -> 10
      [] ps = "Eleven"   -> 11
      [] ps = "Twelve"   -> 12
      [] ps = "Thirteen" -> 13
      [] ps = "Fourteen" -> 14
      [] ps = "Fifteen"  -> 15
      [] ps = "Unknown"  -> -1

(***************************************************************************)
(* The prometheus registry: each metric family maps the label values of    *)
(* its series to the series' value.  get_metric_with_label_values creates  *)
(* the series, at zero, when it does not exist yet.                        *)
(***************************************************************************)
\* An f64 gauge value num/den (x as f64 / 100. keeps the hundredths).
F64(num, den) == [ num |-> num, den |-> den ]

IntMetrics ==
    { "MEMORY_FREE", "MEMORY_USED", "MEMORY_TOTAL", "PERFORMANCE_STATE",
      "POWER_USAGE", "POWER_MAX", "ENERGY_USED", "PCI_REPLAY" }
FloatMetrics == { "FAN_SPEED", "TEMPERATURE" }
CounterMetrics == { "ENERGY_USED", "PCI_REPLAY" }
Metrics == IntMetrics \cup FloatMetrics

\* The lazy_static families, registered with no series.
EmptyRegistry == [ m \in Metrics |-> << >> ]

Zero(m) == IF m \in FloatMetrics THEN F64(0, 1) ELSE 0

Put(f, k, v) == [ x \in (DOMAIN f) \cup {k} |-> IF x = k THEN v ELSE f[x] ]

\* FAMILY.get_metric_with_label_values(labels)
GetMetric(reg, m, l) ==
    IF l \in DOMAIN reg[m] THEN reg ELSE [ reg EXCEPT ![m] = Put(reg[m], l, Zero(m)) ]

\* .set(v) on the series
SetGauge(reg, m, l, v) == [ reg EXCEPT ![m] = Put(reg[m], l, v) ]

\* .get() on a counter series
CounterGet(reg, m, l) == GetMetric(reg, m, l)[m][l]

\* .inc_by(v) on an IntCounter: an atomic u64 add.
IncBy(reg, m, l, v) ==
    [ reg EXCEPT ![m] = Put(reg[m], l, (CounterGet(reg, m, l) + v) % CounterMod) ]

(***************************************************************************)
(* MetricDevice::update                                                    *)
(***************************************************************************)
\* The hardware reads of update, in source order; fan_speed once per fan.
UpdateSteps(dev) ==
    << [ op |-> "memory_info", i |-> 0 ] >>
    \o [ k \in 1 .. dev.fan_count |-> [ op |-> "fan_speed", i |-> k - 1 ] ]
    \o << [ op |-> "temperature", i |-> 0 ],
          [ op |-> "performance_state", i |-> 0 ],
          [ op |-> "power_usage", i |-> 0 ],
          [ op |-> "enforced_power_limit", i |-> 0 ],
          [ op |-> "total_energy_consumption", i |-> 0 ],
          [ op |-> "pcie_replay_counter", i |-> 0 ] >>

\* The family a step writes (memory_info writes three, see StepOk).
StepMetric(s) ==
    CASE s.op = "memory_info"              -> "MEMORY_FREE"
      [] s.op = "fan_speed"                -> "FAN_SPEED"
      [] s.op = "temperature"              -> "TEMPERATURE"
      [] s.op = "performance_state"        -> "PERFORMANCE_STATE"
      [] s.op = "power_usage"              -> "POWER_USAGE"
      [] s.op = "enforced_power_limit"     -> "POWER_MAX"
      [] s.op = "total_energy_consumption" -> "ENERGY_USED"
      [] s.op = "pcie_replay_counter"      -> "PCI_REPLAY"

MutStepLabelsShared(dev, s) ==
    IF s.op = "fan_speed" THEN FanLabels(dev, s.i)
    ELSE << HwUuid(1), HwName(1), HwBusId(1) >>
StepLabels(dev, s) == IF s.op = "fan_speed" THEN FanLabels(dev, s.i) ELSE Labels(dev)

\* The hardware counter a counter step reads.
HwCounter(rd, s) == IF s.op = "total_energy_consumption" THEN rd.energy ELSE rd.replay

\* energy_current - energy_prev on u64, as a release build computes it.
MutCounterDeltaRaw(cur, prev) == cur
CounterDelta(cur, prev) == (cur - prev) % CounterMod

\* The same subtraction overflows (and panics when overflow checks are on).
Underflows(reg, dev, rd, s) ==
    /\ StepMetric(s) \in CounterMetrics
    /\ HwCounter(rd, s) < CounterGet(reg, StepMetric(s), Labels(dev))

\* The registry after step s when its hardware read fails: the series was
\* looked up (and created) before the read, except for memory_info, which is
\* read before any family is touched.
StepErr(reg, dev, s) ==
    IF s.op = "memory_info" THEN reg
    ELSE GetMetric(reg, StepMetric(s), StepLabels(dev, s))

\* The registry after step s when its read returns reading rd.  The memory
\* values are below i64::MAX, so the three try_into conversions succeed.
StepOk(reg, dev, rd, s) ==
    CASE s.op = "memory_info" ->
           SetGauge(SetGauge(SetGauge(reg,
               "MEMORY_FREE", Labels(dev), rd.free),
               "MEMORY_USED", Labels(dev), rd.used),
               "MEMORY_TOTAL", Labels(dev), rd.total)
      [] s.op = "fan_speed" ->
           SetGauge(reg, "FAN_SPEED", FanLabels(dev, s.i), F64(rd.fan + s.i, 100))
      [] s.op = "temperature" ->
           SetGauge(reg, "TEMPERATURE", Labels(dev), F64(rd.temp, 1))
      [] s.op = "performance_state" ->
           SetGauge(reg, "PERFORMANCE_STATE", Labels(dev), PerformanceState(rd.pstate))
      [] s.op = "power_usage" ->
           SetGauge(reg, "POWER_USAGE", Labels(dev), rd.power)
      [] s.op = "enforced_power_limit" ->
           SetGauge(reg, "POWER_MAX", Labels(dev), rd.limit)
      [] s.op \in { "total_energy_consumption", "pcie_replay_counter" } ->
           IncBy(reg, StepMetric(s), Labels(dev),
                 CounterDelta(HwCounter(rd, s), CounterGet(reg, StepMetric(s), Labels(dev))))

\* update from step k on: failAt is the step whose read fails (0: none);
\* checked says whether the build panics on integer overflow.  The result is
\* the registry, how update ended and the step it ended at.
RECURSIVE RunSteps(_, _, _, _, _, _, _)
RunSteps(reg, dev, rd, steps, k, failAt, checked) ==
    IF k > Len(steps) THEN [ reg |-> reg, result |-> "ok", at |-> k ]
    ELSE IF k = failAt THEN
        [ reg |-> StepErr(reg, dev, steps[k]), result |-> "err", at |-> k ]
    ELSE IF checked /\ Underflows(reg, dev, rd, steps[k]) THEN
        [ reg |-> StepErr(reg, dev, steps[k]), result |-> "panic", at |-> k ]
    ELSE RunSteps(StepOk(reg, dev, rd, steps[k]), dev, rd, steps, k + 1, failAt, checked)

\* MetricDevice::update
DeviceUpdate(reg, dev, rd, failAt, checked) ==
    RunSteps(reg, dev, rd, UpdateSteps(dev), 1, failAt, checked)

(***************************************************************************)
(* State                                                                   *)
(***************************************************************************)
VARIABLES
    pc,                \* where the collection thread (main) is
    lastdevices,       \* main.rs:166
    refresh_interval,  \* main.rs:167, seconds
    nextupdate,        \* main.rs:182
    now,               \* Instant::now(), measured from the Instant taken at :182
    nvml,              \* live Nvml instances
    devices,           \* main.rs:171, the MetricDevice handles
    devIdx,            \* position of `for dev in &devices` (1-based), 0 outside
    guard,             \* _update_guard is alive
    registry,          \* the metric families
    requests,          \* scrape requests received and not yet answered, oldest first
    error,             \* why main returned, once it has
    topology,          \* history: the raw devices the last Nvml::init enumerated
    run,               \* history: discovery phases since the device count last changed
    fromStart,         \* history: the count has not changed since the first phase
    hwread,            \* history: per device, the last hardware values update read
                       \* and the largest fan count an update has succeeded with
    regressed,         \* history: counters whose hardware value went down
    surplus,           \* history: 1 + sampling passes completed - discovery phases
                       \* begun, a phase's passes after its first not counted
    lastcall           \* history: per device, the readings the hardware had for the
                       \* last call of update, the step it ended at and how

vars ==
    << pc, lastdevices, refresh_interval, nextupdate, now, nvml, devices, devIdx,
       guard, registry, requests, error, topology, run, fromStart,
       hwread, regressed, surplus, lastcall >>

loopVars == << lastdevices, refresh_interval, nextupdate >>
histVars == << topology, run, fromStart, surplus >>
sampleVars == << registry, hwread, regressed, lastcall >>

NoError == [ kind |-> "none", at |-> 0, of |-> 0 ]
NoRead == [ energy |-> -1, replay |-> -1, pstate |-> "none", fans |-> 0 ]

Init ==
    /\ pc = "discover"
    /\ lastdevices = 0
    /\ refresh_interval = BaseInterval
    /\ nextupdate = 0
    /\ now = 0
    /\ nvml = 0
    /\ devices = << >>
    /\ devIdx = 0
    /\ guard = FALSE
    /\ registry = EmptyRegistry
    /\ requests = << >>
    /\ error = NoError
    /\ topology = << >>
    /\ run = 0
    /\ fromStart = TRUE
    /\ hwread = << >>
    /\ regressed = {}
    /\ lastcall = << >>
    /\ surplus = 1

(***************************************************************************)
(* What the environment may do in a run: the device sets the driver may    *)
(* enumerate, the values a device may report to one update, and the        *)
(* refresh interval up to which the clock is followed.                     *)
(***************************************************************************)
\* GPUs among ids attached, in index order, each answering for a number of fans.
Topologies(ids, fanCounts) ==
    LET idSeqs == { q \in UNION { [ 1 .. n -> ids ] : n \in 0 .. Cardinality(ids) } :
                      \A i \in 1 .. Len(q) - 1 : q[i] < q[i + 1] }
    IN  UNION { { [ i \in 1 .. Len(q) |-> [ id |-> q[i], fans |-> f[i] ] ] :
                    f \in [ 1 .. Len(q) -> fanCounts ] } : q \in idSeqs }

\* One update's readings of a device.
Reading(mem, fan, temp, ps, power, e, r) ==
    [ free |-> mem, used |-> 2 * mem, total |-> 3 * mem, fan |-> fan, temp |-> temp,
      pstate |-> ps, power |-> power, limit |-> power + 50, energy |-> e, replay |-> r ]

\* What update may fail at.
UpdateOps ==
    { "memory_info", "fan_speed", "temperature", "performance_state", "power_usage",
      "enforced_power_limit", "total_energy_consumption", "pcie_replay_counter" }

\* The counters against every pair of hardware values.
CounterEnv ==
    [ topologies |-> Topologies({ 1 }, { 0 }),
      readings   |-> { Reading(1, 40, 50, "Zero", 100, e, r) :
                         e \in 0 .. MaxHw, r \in 0 .. MaxHw },
      faults     |-> { "total_energy_consumption", "pcie_replay_counter" },
      inflight   |-> 1,
      horizon    |-> BaseInterval ]

\* The loop against every device set and any number of outstanding requests.
LoopEnv ==
    [ topologies |-> Topologies(Physical, { 0 }),
      readings   |-> { Reading(2, 73, 60, "Eight", 200, 1, 0) },
      faults     |-> { "temperature" },
      inflight   |-> MaxInflight,
      horizon    |-> MaxInterval ]

\* The sampler against every performance state, on a board whose fan sensors
\* may answer or not from one discovery to the next.
SamplerEnv ==
    [ topologies |-> Topologies({ 1 }, 0 .. MaxFans),
      readings   |-> { Reading(1, 40, 50, ps, 100, 1, 0) : ps \in PerformanceStates },
      faults     |-> { "fan_speed", "performance_state" },
      inflight   |-> 1,
      horizon    |-> BaseInterval ]

\* The loop on a host with a single GPU slot.
LiveEnv ==
    [ topologies |-> Topologies({ 1 }, { 0 }),
      readings   |-> { Reading(2, 73, 60, "Eight", 200, 1, 0) },
      faults     |-> { "temperature" },
      inflight   |-> MaxInflight,
      horizon    |-> MaxInterval ]

\* update against a failure of each of its reads, on a board with or without
\* a fan, the hardware values differing from one update to the next.
UpdateEnv ==
    [ topologies |-> Topologies({ 1 }, 0 .. MaxFans),
      readings   |-> { Reading(1, 40, 50, "Two", 100, 1, 0),
                       Reading(2, 55, 65, "Zero", 250, 2, 1) },
      faults     |-> UpdateOps,
      inflight   |-> 1,
      horizon    |-> BaseInterval ]

\* update of several boards, each with its fans, whose hardware values differ
\* from one call to the next.
IsolationEnv ==
    [ topologies |-> Topologies(Physical, { MaxFans }),
      readings   |-> { Reading(1, 40, 50, "Two", 100, 1, 0),
                       Reading(2, 73, 65, "Zero", 250, 2, 1) },
      faults     |-> { "power_usage" },
      inflight   |-> 1,
      horizon    |-> BaseInterval ]

\* The loop on a host with a single GPU slot whose hardware queries never fail.
HealthyEnv ==
    [ topologies |-> Topologies({ 1 }, { 0 }),
      readings   |-> { Reading(2, 73, 60, "Eight", 200, 1, 0) },
      faults     |-> {},
      inflight   |-> MaxInflight,
      horizon    |-> MaxInterval ]

\* Discovery on a board that answers for no fan, for three, and for as many
\* as the probe asks about and more.
ProbeEnv ==
    [ topologies |-> Topologies({ 1 }, { 0, 3, FanProbeCap - 1, FanProbeCap,
                                         FanProbeCap + 1, FanProbeCap + 2 }),
      readings   |-> {},
      faults     |-> {},
      inflight   |-> 0,
      horizon    |-> MaxInterval ]

(***************************************************************************)
(* The request gate of prometheus_exporter: a scrape request is queued     *)
(* until wait_request hands the collection thread a guard for it; the      *)
(* responder answers it once that guard is dropped.                        *)
(***************************************************************************)
NewRequest == [ state |-> "pending", updated |-> 0, of |-> 0 ]

HasState(st) == { i \in 1 .. Len(requests) : requests[i].state = st }

FirstOf(S) == CHOOSE i \in S : \A j \in S : i <= j

\* The request whose guard the collection thread holds is released.
DropGuard(reqs) ==
    [ i \in 1 .. Len(reqs) |->
        IF reqs[i].state = "held" THEN [ reqs[i] EXCEPT !.state = "released" ] ELSE reqs[i] ]

\* A scrape request reaches the exporter.  (One that reaches a process whose
\* main is returning stays unanswered, whatever else happens.)
Request(E) ==
    /\ pc \notin { "failing", "exited" }
    /\ Len(requests) < E.inflight
    /\ requests' = Append(requests, NewRequest)
    /\ UNCHANGED << pc, loopVars, now, nvml, devices, devIdx, guard, sampleVars,
                    error, histVars >>

\* The responder answers the oldest request, its guard having been dropped,
\* with the registry as it is now.
Serve ==
    /\ pc # "exited"
    /\ requests # << >>
    /\ requests[1].state = "released"
    /\ requests' = Tail(requests)
    /\ UNCHANGED << pc, loopVars, now, nvml, devices, devIdx, guard, sampleVars,
                    error, histVars >>

(***************************************************************************)
(* main                                                                    *)
(***************************************************************************)
\* main.rs:177-180
MutRefreshNoCap(last, count, interval) ==
    IF last = count THEN interval * 2 ELSE BaseInterval
MutRefreshNoReset(last, count, interval) ==
    IF last = count THEN Min(interval * 2, MaxInterval) ELSE interval
RefreshInterval(last, count, interval) ==
    IF last = count THEN Min(interval * 2, MaxInterval) ELSE BaseInterval

\* main.rs:184, the condition of the while loop
MutLoopNever(t, deadline) == FALSE
MutLoopForever(t, deadline) == TRUE
LoopContinues(t, deadline) == t < deadline

\* main returns the error (`?`): its locals are dropped, the guard first, and
\* the process exits once main has returned.
Fail(kind) ==
    /\ pc' = "failing"
    /\ error' = [ kind |-> kind, at |-> devIdx, of |-> Len(devices) ]
    /\ guard' = FALSE
    /\ requests' = DropGuard(requests)
    /\ devices' = << >>
    /\ nvml' = 0
    /\ devIdx' = 0

\* The surplus of passes once one more discovery phase has begun (a phase
\* begun with none left is recorded as -1, whatever follows) and once one more
\* pass has completed.
BeginPhase(n) == IF n <= 0 THEN -1 ELSE n - 1
EndOfPass(n) == IF n = -1 THEN -1 ELSE 1

\* main.rs:170-182, a discovery phase that succeeds.
DiscoverOk(E) ==
    /\ pc = "discover"
    /\ \E topo \in E.topologies :
        /\ nvml' = nvml + 1
        /\ devices' = [ i \in 1 .. Len(topo) |-> MetricDeviceNew(topo[i]) ]
        /\ refresh_interval' = RefreshInterval(lastdevices, Len(devices'), refresh_interval)
        /\ lastdevices' = Len(devices')
        /\ now' = 0
        /\ nextupdate' = now' + refresh_interval'
        /\ topology' = topo
        /\ run' = IF run = 0 \/ Len(topo) # Len(topology) THEN 1 ELSE Min(run + 1, MaxRun)
        /\ fromStart' = (fromStart /\ (run = 0 \/ Len(topo) = Len(topology)))
    /\ surplus' = BeginPhase(surplus)
    /\ pc' = "check"
    /\ UNCHANGED << devIdx, guard, sampleVars, requests, error >>

\* main.rs:170-176, a discovery phase in which a query fails: Nvml::init,
\* device_count, device_by_index or, in MetricDevice::new, uuid, name or
\* pci_info.  Each is followed by `?`, and main has assigned nothing yet.
MutDiscoverErrRetry ==
    /\ pc = "discover"
    /\ error' = [ kind |-> "discovery", at |-> 0, of |-> 0 ]
    /\ refresh_interval' = BaseInterval
    /\ UNCHANGED << pc, lastdevices, nextupdate, now, nvml, devices, devIdx, guard,
                    sampleVars, requests, histVars >>
DiscoverErr ==
    /\ pc = "discover"
    /\ Fail("discovery")
    /\ surplus' = BeginPhase(surplus)
    /\ UNCHANGED << loopVars, now, sampleVars, topology, run, fromStart >>

\* main.rs:184: the deadline is compared; past it the loop body ends, devices
\* and nvml go out of scope and the outer loop starts over.
MutCheckDeadlineKeep ==
    /\ pc = "check"
    /\ pc' = IF LoopContinues(now, nextupdate) THEN "wait" ELSE "discover"
    /\ UNCHANGED << devices, nvml, loopVars, now, devIdx, guard, sampleVars, requests,
                    error, histVars >>
CheckDeadline ==
    /\ pc = "check"
    /\ IF LoopContinues(now, nextupdate)
       THEN /\ pc' = "wait"
            /\ UNCHANGED << devices, nvml >>
       ELSE /\ pc' = "discover"
            /\ devices' = << >>
            /\ nvml' = nvml - 1
    /\ UNCHANGED << loopVars, now, devIdx, guard, sampleVars, requests, error,
                    histVars >>

\* main.rs:185: wait_request returns with the guard of the oldest queued request.
WaitRequest ==
    /\ pc = "wait"
    /\ HasState("pending") # {}
    /\ requests' = [ requests EXCEPT ![FirstOf(HasState("pending"))] =
                        [ state |-> "held", updated |-> 0, of |-> Len(devices) ] ]
    /\ guard' = TRUE
    /\ pc' = "update"
    /\ devIdx' = 1
    /\ UNCHANGED << loopVars, now, nvml, devices, sampleVars, error, histVars >>

\* The steps of update whose read may fail (0: none does).
FailPoints(dev, faults) ==
    { 0 } \cup { k \in 1 .. Len(UpdateSteps(dev)) : UpdateSteps(dev)[k].op \in faults }

\* What update read from the hardware before it ended.
ReadDone(dev, r, op) ==
    \E k \in 1 .. Len(UpdateSteps(dev)) :
        /\ UpdateSteps(dev)[k].op = op
        /\ \/ k < r.at
           \/ k = r.at /\ r.result = "panic"

LastRead(l) == IF l \in DOMAIN hwread THEN hwread[l] ELSE NoRead

\* After an update error: `?` returns it from main.
MutOnUpdateErrorSkip(kind) ==
    /\ error' = [ kind |-> kind, at |-> devIdx, of |-> Len(devices) ]
    /\ devIdx' = devIdx + 1
    /\ UNCHANGED << pc, nvml, devices, guard, requests >>
OnUpdateError(kind) == Fail(kind)

\* After an update that succeeded: the for loop goes on.
OnUpdateOk ==
    /\ devIdx' = devIdx + 1
    /\ requests' = [ requests EXCEPT ![FirstOf(HasState("held"))].updated = @ + 1 ]
    /\ UNCHANGED << pc, nvml, devices, guard, error >>

\* main.rs:186-188, one iteration of the for loop: dev.update()?
Update(E) ==
    /\ pc = "update"
    /\ devIdx <= Len(devices)
    /\ \E rd \in E.readings, failAt \in FailPoints(devices[devIdx], E.faults),
          checked \in BOOLEAN :
        \E r \in { DeviceUpdate(registry, devices[devIdx], rd, failAt, checked) } :
        \E e \in { ReadDone(devices[devIdx], r, "total_energy_consumption") },
           p \in { ReadDone(devices[devIdx], r, "pcie_replay_counter") },
           s \in { ReadDone(devices[devIdx], r, "performance_state") },
           old \in { LastRead(Labels(devices[devIdx])) } :
            /\ registry' = r.reg
            /\ hwread' = Put(hwread, Labels(devices[devIdx]),
                   [ energy |-> IF e THEN rd.energy ELSE old.energy,
                     replay |-> IF p THEN rd.replay ELSE old.replay,
                     pstate |-> IF s THEN rd.pstate ELSE old.pstate,
                     fans   |-> IF r.result = "ok" /\ devices[devIdx].fan_count > old.fans
                                THEN devices[devIdx].fan_count ELSE old.fans ])
            /\ regressed' = regressed
                   \cup (IF e /\ rd.energy < old.energy
                         THEN { << "ENERGY_USED", Labels(devices[devIdx]) >> } ELSE {})
                   \cup (IF p /\ rd.replay < old.replay
                         THEN { << "PCI_REPLAY", Labels(devices[devIdx]) >> } ELSE {})
            /\ lastcall' = Put(lastcall, Labels(devices[devIdx]),
                   [ reading |-> rd, ended |-> r.at, result |-> r.result ])
            /\ IF r.result = "ok" THEN OnUpdateOk ELSE OnUpdateError(r.result)
    /\ UNCHANGED << loopVars, now, histVars >>

\* main.rs:189: the for loop is over and _update_guard goes out of scope.
MutEndPassKeepGuard ==
    /\ pc = "update"
    /\ devIdx > Len(devices)
    /\ pc' = "check"
    /\ devIdx' = 0
    /\ surplus' = EndOfPass(surplus)
    /\ UNCHANGED << guard, requests, loopVars, now, nvml, devices, sampleVars, error,
                    topology, run, fromStart >>
EndPass ==
    /\ pc = "update"
    /\ devIdx > Len(devices)
    /\ guard' = FALSE
    /\ requests' = DropGuard(requests)
    /\ pc' = "check"
    /\ devIdx' = 0
    /\ surplus' = EndOfPass(surplus)
    /\ UNCHANGED << loopVars, now, nvml, devices, sampleVars, error, topology, run,
                    fromStart >>

\* main has returned the error: the process exits.
Exit ==
    /\ pc = "failing"
    /\ pc' = "exited"
    /\ UNCHANGED << loopVars, now, nvml, devices, devIdx, guard, sampleVars, requests,
                    error, histVars >>

\* Time passes.  The clock is followed up to the deadline it is compared with.
Tick(E) ==
    /\ pc \in { "check", "wait", "update" }
    /\ refresh_interval <= E.horizon
    /\ now < nextupdate
    /\ now' = now + TickStep
    /\ UNCHANGED << pc, loopVars, nvml, devices, devIdx, guard, sampleVars, requests,
                    error, histVars >>

Collector(E) ==
    \/ DiscoverOk(E)
    \/ DiscoverErr
    \/ CheckDeadline
    \/ WaitRequest
    \/ Update(E)
    \/ EndPass
    \/ Exit

NextIn(E) ==
    \/ Collector(E)
    \/ Request(E)
    \/ Serve
    \/ Tick(E)

(***************************************************************************)
(* Specifications                                                          *)
(***************************************************************************)
Next == NextIn(LoopEnv)

Spec == Init /\ [][Next]_vars

\* The loop on a host with one GPU slot, with a collection thread that is
\* always scheduled again: whatever step main can take, it eventually takes.
\* Nothing is assumed of the scrape requests, the responder or the clock.
FairNext == NextIn(LiveEnv)

FairSpec == Init /\ [][FairNext]_vars /\ WF_vars(Collector(LiveEnv))

SamplerNext == NextIn(SamplerEnv)

SamplerSpec == Init /\ [][SamplerNext]_vars

CounterNext == NextIn(CounterEnv)

CounterSpec == Init /\ [][CounterNext]_vars

UpdateNext == NextIn(UpdateEnv)

UpdateSpec == Init /\ [][UpdateNext]_vars

IsolationNext == NextIn(IsolationEnv)

IsolationSpec == Init /\ [][IsolationNext]_vars

\* The loop when the while condition is evaluated for the first time before
\* the deadline computed at main.rs:182 has passed: no time is lost between the
\* end of a discovery phase and the loop that follows it.
TickSampling(E) == pc \in { "wait", "update" } /\ Tick(E)

PromptNext ==
    \/ Collector(LoopEnv)
    \/ Request(LoopEnv)
    \/ Serve
    \/ TickSampling(LoopEnv)

PromptSpec == Init /\ [][PromptNext]_vars

\* The loop when every hardware query returns and none fails, with a
\* collection thread and a responder that are always scheduled again; the
\* while condition is first evaluated before the deadline has passed.
\* Nothing is assumed of the scrape requests or the clock.
Healthy(E) ==
    \/ DiscoverOk(E)
    \/ CheckDeadline
    \/ WaitRequest
    \/ Update(E)
    \/ EndPass

ServingNext ==
    \/ Healthy(HealthyEnv)
    \/ Request(HealthyEnv)
    \/ Serve
    \/ TickSampling(HealthyEnv)

ServingSpec ==
    Init /\ [][ServingNext]_vars /\ WF_vars(Healthy(HealthyEnv)) /\ WF_vars(Serve)

\* The loop while no scrape request arrives: discovery, and again discovery
\* when the deadline has passed by the time the while condition is evaluated.
ProbeNext ==
    \/ DiscoverOk(ProbeEnv)
    \/ DiscoverErr
    \/ CheckDeadline
    \/ Exit
    \/ Tick(ProbeEnv)

ProbeSpec == Init /\ [][ProbeNext]_vars

(***************************************************************************)
(* Claims                                                                  *)
(***************************************************************************)
Sampling == pc \in { "check", "wait", "update" }
Terminating == pc \in { "failing", "exited" }
Fatal == error.kind # "none"
Answered == Len(requests') < Len(requests)

\* C1 (as claimed): a scrape request is answered only after the collection
\* thread, having picked it up with wait_request, has updated every device
\* handle it had at that time.
C1_ScrapeBarrier ==
    [][Answered => /\ requests[1].state = "released"
                   /\ requests[1].updated = requests[1].of]_vars

\* The interval the j-th phase of a run of equal device counts should choose.
ExpectedInterval(j) == Min(BaseInterval * Pow2(j - 1), MaxInterval)

\* C2 (as claimed): at the j-th discovery phase of a run of equal device counts,
\* counted from the first phase of the process or from the phase at which the
\* count changed, the refresh interval is min(30 * 2^(j-1), 3600).
C2_IntervalSequence == run >= 1 => refresh_interval = ExpectedInterval(run)

\* C2 (amended): the same, except that a run which starts with the first phase
\* of the process finding no device is one doubling ahead: min(30 * 2^j, 3600).
C2_IntervalSequenceAmended ==
    run >= 1 =>
        refresh_interval =
            IF fromStart /\ Len(topology) = 0
            THEN ExpectedInterval(run + 1)
            ELSE ExpectedInterval(run)

\* C2 witness: a run that began at a count change has reached the cap.
C2_Witness == run = MaxRun /\ ~fromStart /\ refresh_interval = MaxInterval

\* C3: the refresh interval stays within 30s .. 3600s, and only a discovery
\* phase changes it or the recorded count: to min(2 * interval, 3600) when the
\* new count equals the recorded one, to 30 otherwise, the new count being
\* recorded.
C3_IntervalRule ==
    /\ [](BaseInterval <= refresh_interval /\ refresh_interval <= MaxInterval)
    /\ [][\/ /\ pc = "discover"
             /\ pc' = "check"
             /\ lastdevices' = Len(devices')
             /\ refresh_interval' =
                   IF Len(devices') = lastdevices
                   THEN (IF 2 * refresh_interval <= 3600 THEN 2 * refresh_interval ELSE 3600)
                   ELSE 30
          \/ /\ ~(pc = "discover" /\ pc' = "check")
             /\ UNCHANGED << refresh_interval, lastdevices >>]_vars

\* C3 witness: a doubling was cut at the cap with two devices attached.
C3_Witness == refresh_interval = MaxInterval /\ lastdevices = 2 /\ pc = "wait"

\* C6: once an update has failed, main is returning: no device is updated, no
\* request is picked up and no discovery phase runs any more.
C6_FatalSamplingError ==
    [][/\ (~Fatal /\ Fatal') => pc' = "failing"
       /\ Fatal => /\ Terminating'
                   /\ HasState("held")' = {}
                   /\ UNCHANGED << registry, hwread, devices, nvml, loopVars, topology,
                                   run, error >>]_vars

\* C6 witness: the process has exited on an update error that left a later
\* device of the pass without its update.
C6_Witness == pc = "exited" /\ error.kind = "err" /\ error.at < error.of

\* C7: a sampling phase only runs with a handle for every enumerated device,
\* and a discovery phase that fails ends the process without touching the
\* refresh interval or the recorded count.
C7_DiscoveryAllOrNothing ==
    /\ [](Sampling => /\ Len(devices) = Len(topology)
                      /\ \A i \in 1 .. Len(devices) : devices[i].device = topology[i].id
                      /\ ~Fatal)
    /\ [][(pc = "discover" /\ Fatal') =>
            /\ pc' = "failing"
            /\ devices' = << >>
            /\ UNCHANGED << refresh_interval, lastdevices, registry >>]_vars

\* C7 witness: a discovery phase after a successful one failed.
C7_Witness == pc = "exited" /\ error.kind = "discovery" /\ run >= 1 /\ lastdevices = 2

DeadlinePassed == Sampling /\ now >= nextupdate

\* C8 (as claimed): once the clock has reached the deadline, the loop leaves
\* the sampling phase and runs discovery again, unless a fatal error occurs.
C8_ReturnToDiscovery == DeadlinePassed ~> (pc = "discover" \/ Fatal)

\* C8 (amended): it does so once the pass in progress is over, and from
\* wait_request only when a scrape request is there to be picked up.
C8_ReturnToDiscoveryAmended ==
    (DeadlinePassed /\ (pc = "wait" => HasState("pending") # {}))
        ~> (pc = "discover" \/ Fatal)

\* C8 witness: the deadline passed while the loop was blocked in wait_request,
\* and a request has arrived since.
C8_Witness == DeadlinePassed /\ pc = "wait" /\ HasState("pending") # {} /\ lastdevices = 1

\* The value of a counter series, 0 while it does not exist.
CounterValue(reg, m, l) == IF l \in DOMAIN reg[m] THEN reg[m][l] ELSE 0

\* The last hardware value update read for counter m of the device labelled l.
HwValue(m, l) == IF m = "ENERGY_USED" THEN LastRead(l).energy ELSE LastRead(l).replay

AllLabels == UNION { DOMAIN registry[m] : m \in CounterMetrics }

\* C4: while the hardware values read for a counter of a device have never
\* gone down, the registry counter never decreases and equals the hardware
\* value last read (0 before the first read), so each update increments it
\* by the hardware value minus the registry's previous value.
C4_CounterMirroring ==
    /\ [](\A m \in CounterMetrics : \A l \in DOMAIN registry[m] :
            << m, l >> \notin regressed =>
                registry[m][l] = (IF HwValue(m, l) = -1 THEN 0 ELSE HwValue(m, l)))
    /\ [][\A m \in CounterMetrics : \A l \in DOMAIN registry'[m] :
            << m, l >> \notin regressed' =>
                CounterValue(registry', m, l) >= CounterValue(registry, m, l)]_vars

\* C4 witness: the same device, discovered again, has had its energy counter
\* raised to the top value in steps and its replay counter left behind.
C4_Witness ==
    \E l \in AllLabels :
        /\ << "ENERGY_USED", l >> \notin regressed
        /\ << "PCI_REPLAY", l >> \notin regressed
        /\ CounterValue(registry, "ENERGY_USED", l) = MaxHw
        /\ CounterValue(registry, "PCI_REPLAY", l) = 1
        /\ run = 2
        /\ pc = "wait"

\* C5 (as claimed): a hardware value below the registry counter's value is
\* rejected or clamped: the registry counter never decreases.
C5_CounterRegression ==
    [][\A m \in CounterMetrics : \A l \in DOMAIN registry[m] :
            CounterValue(registry', m, l) >= registry[m][l]]_vars

\* The integer the enum value stands for: its position among the numbered
\* states, -1 for Unknown.
StateNumber(ps) ==
    IF ps = "Unknown" THEN -1
    ELSE (CHOOSE i \in 1 .. Len(NumberedStates) : NumberedStates[i] = ps) - 1

\* C9: performance_state maps each of the 17 enum values to an integer, the
\* numbered states one-to-one onto 0..15 in ascending order, Unknown to -1;
\* the gauge holds the image of the state last read.
C9_PerformanceStateMapping ==
    /\ \A l \in DOMAIN registry["PERFORMANCE_STATE"] :
          registry["PERFORMANCE_STATE"][l] =
              (IF LastRead(l).pstate = "none" THEN 0 ELSE StateNumber(LastRead(l).pstate))
    /\ \A l \in DOMAIN hwread :
          LastRead(l).pstate # "none" =>
              /\ PerformanceState(LastRead(l).pstate) \in -1 .. 15
              /\ \A other \in PerformanceStates \ { LastRead(l).pstate } :
                    PerformanceState(other) # PerformanceState(LastRead(l).pstate)

\* C9 witness: the gauge shows 10 for a device whose state was read as Ten.
C9_Witness ==
    \E l \in DOMAIN registry["PERFORMANCE_STATE"] :
        LastRead(l).pstate = "Ten" /\ registry["PERFORMANCE_STATE"][l] = 10

\* The fan label values of the fan_speed series that carry the labels l.
FanSeries(l) ==
    { k[4] : k \in { x \in DOMAIN registry["FAN_SPEED"] : SubSeq(x, 1, 3) = l } }

FanIndices(n) == { ToString(j) : j \in 0 .. n - 1 }

\* The handles the pass in progress has updated.
UpdatedHandles == IF pc = "update" THEN 1 .. devIdx - 1 ELSE {}

\* C10 (as claimed): after a successful update of a device with fan_count k
\* the registry holds exactly k fan_speed series for its identity, labelled
\* 0..k-1, whatever fan counts the identity was probed with before.
C10_FanSeries ==
    \A i \in UpdatedHandles :
        FanSeries(Labels(devices[i])) = FanIndices(devices[i].fan_count)

\* C10 (amended): it holds the series 0..m-1, m being the largest fan count an
\* update of that identity has succeeded with, which is at least k.
C10_FanSeriesAmended ==
    \A i \in UpdatedHandles :
        /\ FanSeries(Labels(devices[i])) = FanIndices(LastRead(Labels(devices[i])).fans)
        /\ LastRead(Labels(devices[i])).fans >= devices[i].fan_count

\* C10 witness: a device probed with fewer fans than before has been updated.
C10_Witness ==
    \E i \in UpdatedHandles :
        /\ devices[i].fan_count < LastRead(Labels(devices[i])).fans
        /\ FanSeries(Labels(devices[i])) # {}

\* C11 (as claimed): the fan count of a handle is the first index whose probe
\* fails or 10,000, whichever is smaller; it never exceeds 10,000.
C11_FanProbeCap ==
    \A i \in 1 .. Len(devices) :
        /\ devices[i].fan_count = Min(topology[i].fans, FanProbeCap)
        /\ devices[i].fan_count <= FanProbeCap

\* The series a step of update writes.
StepSeries(dev, st) ==
    IF st.op = "memory_info"
    THEN { << m, Labels(dev) >> : m \in { "MEMORY_FREE", "MEMORY_USED", "MEMORY_TOTAL" } }
    ELSE { << StepMetric(st), StepLabels(dev, st) >> }

\* The value a series has once its step has read rd from the hardware.
Sampled(m, rd, fan) ==
    CASE m = "MEMORY_FREE"       -> rd.free
      [] m = "MEMORY_USED"       -> rd.used
      [] m = "MEMORY_TOTAL"      -> rd.total
      [] m = "FAN_SPEED"         -> F64(rd.fan + fan, 100)
      [] m = "TEMPERATURE"       -> F64(rd.temp, 1)
      [] m = "PERFORMANCE_STATE" -> StateNumber(rd.pstate)
      [] m = "POWER_USAGE"       -> rd.power
      [] m = "POWER_MAX"         -> rd.limit
      [] m = "ENERGY_USED"       -> rd.energy
      [] m = "PCI_REPLAY"        -> rd.replay

\* The series is the same before and after the step: there or not, and its value.
SeriesUnchanged(x) ==
    /\ (x[2] \in DOMAIN registry[x[1]]) <=> (x[2] \in DOMAIN registry'[x[1]])
    /\ x[2] \in DOMAIN registry[x[1]] => registry'[x[1]][x[2]] = registry[x[1]][x[2]]

\* The step of the loop at which an update returned an error.
UpdateFailed == pc = "update" /\ error.kind = "none" /\ error'.kind = "err"

\* C12 (as claimed): when the read of a step of update fails, the series of the
\* steps before it, in the order memory, fans, temperature, performance state,
\* power usage, power limit, energy, replay, hold the values just read, and
\* the series of the failing step and of the later steps are left unchanged.
C12_PartialUpdate ==
    [][UpdateFailed =>
        LET dev   == devices[devIdx]
            call  == lastcall'[Labels(dev)]
            steps == UpdateSteps(dev)
        IN  /\ call.ended \in 1 .. Len(steps)
            /\ \A j \in 1 .. call.ended - 1 : \A x \in StepSeries(dev, steps[j]) :
                  /\ x[2] \in DOMAIN registry'[x[1]]
                  /\ registry'[x[1]][x[2]] = Sampled(x[1], call.reading, steps[j].i)
            /\ \A j \in call.ended .. Len(steps) : \A x \in StepSeries(dev, steps[j]) :
                  SeriesUnchanged(x)]_vars

\* C13 (as claimed): while the process is alive, the guard of a request whose
\* pass did not update every handle has not been released to the responder.
C13_NoPartialSnapshot ==
    \A i \in 1 .. Len(requests) :
        (requests[i].state = "released" /\ requests[i].updated < requests[i].of)
            => pc = "exited"

\* A step of the loop in which update was called on a handle.
UpdateCalled == lastcall' # lastcall \/ registry' # registry

\* C14 (as claimed): a pass starts at the first handle when a pull signal is
\* received, update is called on the handles one by one in index order and
\* only while the pull signal is held, and the pull signal is released only
\* after the update of the last handle has returned successfully.
C14_OnePassPerSignal ==
    [][/\ (pc = "wait" /\ pc' = "update") =>
            devIdx' = 1 /\ guard' /\ Cardinality(HasState("held")') = 1
       /\ UpdateCalled =>
            /\ guard /\ pc = "update" /\ Cardinality(HasState("held")) = 1
            /\ devIdx \in 1 .. Len(devices)
            /\ requests[FirstOf(HasState("held"))].updated = devIdx - 1
            /\ \A l \in DOMAIN lastcall' :
                  l # Labels(devices[devIdx]) =>
                      l \in DOMAIN lastcall /\ lastcall'[l] = lastcall[l]
            /\ error'.kind = "none" => devIdx' = devIdx + 1 /\ guard'
       /\ (guard /\ ~guard') =>
            /\ devIdx = Len(devices) + 1
            /\ \A i \in HasState("held") : requests[i].updated = Len(devices)]_vars

\* The identity labels (uuid, name, pci) a series carries.
Identity(l) == SubSeq(l, 1, 3)

\* The identities that have a series in the registry.
IdentitiesIn(reg) == { Identity(l) : l \in UNION { DOMAIN reg[m] : m \in Metrics } }

\* The per-device gauges other than the fans'.
DeviceGauges == (Metrics \ CounterMetrics) \ { "FAN_SPEED" }

\* Every handle of the current set has been updated by the pass in progress.
PassComplete == pc = "update" /\ devIdx = Len(devices) + 1

\* Every series the registry gains or that changes is a series of the handle
\* being updated, keyed by its labels (and a fan index for fan_speed); no
\* other series changes or disappears.
WritesOwnSeries ==
    \A m \in Metrics :
        /\ \A l \in DOMAIN registry[m] : l \in DOMAIN registry'[m]
        /\ \A l \in DOMAIN registry'[m] :
              (l \notin DOMAIN registry[m] \/ registry'[m][l] # registry[m][l]) =>
                  /\ pc = "update" /\ devIdx \in 1 .. Len(devices)
                  /\ Identity(l) = Labels(devices[devIdx])
                  /\ Len(l) = (IF m = "FAN_SPEED" THEN 4 ELSE 3)

\* The gauges of every handle of the current set hold what its update read.
GaugesMatchReadings ==
    \A i \in 1 .. Len(devices) :
        LET l  == Labels(devices[i])
            rd == lastcall[l].reading
        IN  /\ \A m \in DeviceGauges :
                  l \in DOMAIN registry[m] /\ registry[m][l] = Sampled(m, rd, 0)
            /\ \A f \in 0 .. devices[i].fan_count - 1 :
                  /\ FanLabels(devices[i], f) \in DOMAIN registry["FAN_SPEED"]
                  /\ registry["FAN_SPEED"][FanLabels(devices[i], f)]
                        = Sampled("FAN_SPEED", rd, f)

\* C15 (as claimed): update writes only series keyed by the labels of its own
\* device and leaves the series of every other identity unchanged; after a
\* full successful pass over n devices the registry holds exactly n sets of
\* per-device series, with the values read for each device.
C15_LabelIsolation ==
    /\ [][WritesOwnSeries]_vars
    /\ [](PassComplete =>
            /\ IdentitiesIn(registry) = { Labels(devices[i]) : i \in 1 .. Len(devices) }
            /\ Cardinality(IdentitiesIn(registry)) = Len(devices)
            /\ GaugesMatchReadings)

\* C15 (amended): the same, except that the registry holds a set for every
\* identity updated since the process started: the n of the current handles
\* and those of devices sampled earlier and no longer enumerated.
C15_LabelIsolationAmended ==
    /\ [][WritesOwnSeries]_vars
    /\ [](PassComplete =>
            /\ { Labels(devices[i]) : i \in 1 .. Len(devices) } \subseteq IdentitiesIn(registry)
            /\ IdentitiesIn(registry) = DOMAIN lastcall
            /\ Cardinality(IdentitiesIn(registry)) >= Len(devices)
            /\ GaugesMatchReadings)

\* C15 witness: a pass over two devices is complete and the two sets of series
\* hold different readings.
C15_Witness ==
    /\ PassComplete
    /\ Len(devices) = 2
    /\ lastcall[Labels(devices[1])].reading # lastcall[Labels(devices[2])].reading
    /\ registry["MEMORY_FREE"][Labels(devices[1])]
         # registry["MEMORY_FREE"][Labels(devices[2])]

\* C16: the handles a sampling phase uses are those the most recent discovery
\* phase built from the devices it enumerated, and they stay the same set for
\* the whole phase; when a discovery phase begins, the previous handles and the
\* previous Nvml instance have been dropped, so at most one instance is live.
C16_HandlesReplaced ==
    /\ [](/\ nvml \in { 0, 1 }
          /\ pc = "discover" => nvml = 0 /\ devices = << >>
          /\ Sampling =>
                /\ nvml = 1
                /\ devices = [ i \in 1 .. Len(topology) |-> MetricDeviceNew(topology[i]) ])
    /\ [][/\ (Sampling /\ Sampling') => devices' = devices /\ nvml' = nvml
          /\ UpdateCalled =>
                Labels(devices[devIdx]) = Labels(MetricDeviceNew(topology[devIdx]))]_vars

\* C16 witness: after a discovery phase that found another number of devices
\* than the one before, a pass is updating the second of two handles.
C16_Witness ==
    /\ pc = "update" /\ devIdx = 2 /\ Len(devices) = 2
    /\ ~fromStart /\ run = 1
    /\ nvml = 1

\* A step at which a discovery phase begins, and one at which it began anew.
PhaseBegins == pc = "discover" /\ pc' # "discover"
PassCompletes == pc = "update" /\ pc' = "check"

\* C17: when the loop reaches the while condition before the deadline, a
\* discovery phase other than the first begins only after a sampling pass has
\* completed since the phase before it, a pass completes only for a scrape
\* request that was picked up, and so the discovery phases never number more
\* than 1 + the completed passes.
C17_GatedOnScrapes ==
    /\ [](surplus >= 0)
    /\ [][/\ PhaseBegins => surplus >= 1 /\ surplus' = surplus - 1
          /\ PassCompletes => guard /\ HasState("held") # {} /\ surplus' = 1
          /\ (pc = "check" /\ pc' = "discover") => surplus = 1 /\ now >= nextupdate
          /\ (pc = "wait" /\ HasState("pending") = {}) => pc' = "wait"]_vars

\* C17 witness: a second discovery phase has run, after a pass, and the loop
\* is blocked again with no scrape request to pick up.
C17_Witness ==
    /\ pc = "wait" /\ requests = << >>
    /\ run = 2 /\ surplus = 0
    /\ now >= nextupdate

\* C18: when no hardware query fails, every scrape request is eventually
\* answered.  The requests are answered oldest first, so each is answered if
\* answers keep being given as long as requests keep being outstanding; a
\* request that arrived during a discovery phase is picked up, and one that
\* arrived during the pass of an earlier request is still there when the loop
\* is back at wait_request, where it is picked up.
C18_EveryRequestServed ==
    /\ []<>(requests # << >>) => []<><<Answered>>_vars
    /\ (pc = "discover" /\ HasState("pending") # {}) ~> (HasState("held") # {})
    /\ (pc = "update" /\ HasState("pending") # {})
          ~> (pc = "wait" /\ HasState("pending") # {})
    /\ (pc = "wait" /\ HasState("pending") # {}) ~> (HasState("held") # {})

\* C18 witness: a request that arrived while the pass of an earlier one was in
\* progress is being served by a pass of its own, the earlier one still to be
\* answered.
C18_Witness ==
    /\ pc = "update" /\ Len(requests) = 2 /\ Len(devices) = 1
    /\ requests[1].state = "released" /\ requests[1].updated = 1
    /\ requests[2].state = "held"

====
